---------------------------- MODULE Spec2Model ----------------------------
(* A model of t.py, the usage example of the lize function serializer.      *)
(*                                                                          *)
(* The script is straight-line code: it imports three names from lize,      *)
(* defines add, prints Runnable.from_pyfn(add), serializes add,             *)
(* deserializes the result and prints it.  The lize library is not part of  *)
(* the repository: each of its three calls either returns a value or        *)
(* raises, and which of the two is fixed by the variable lib, chosen        *)
(* arbitrarily in the initial state.                                        *)
(*                                                                          *)
(* Two runs of the script are modelled side by side.  They share lib and    *)
(* differ in their command line, environment and standard input, which is   *)
(* what a statement about "two runs that differ only in ..." needs.         *)
(*                                                                          *)
(* add is never called by the script.  Its contract is checked under a      *)
(* second specification, SpecAdd, in which a caller applies add to          *)
(* arguments drawn from bounded sets.  k is a float in the source: k and    *)
(* the result of add are modelled as fixed-point numbers counted in units   *)
(* of 1/KScale, a and b as integers.                                        *)
EXTENDS Integers, Sequences, FiniteSets, TLC

\* ------------------------------------------------------------------ bounds

\* How many distinct values each library call may return.
NumVals == 2
\* add's integer arguments range over -MaxArg..MaxArg.
MaxArg == 1
\* k ranges over -MaxK..MaxK units of 1/KScale.
MaxK == 2
\* Units per 1 of the fixed-point numbers.
KScale == 2

\* ------------------------------------------------------------------ values

Runs == {"run1", "run2"}

Ids == 1..NumVals

\* The function object bound to the name add by the def statement.
AddFn == [type |-> "function add", id |-> 0]
\* A name that has no binding yet.
Unbound == [type |-> "unbound", id |-> 0]
\* The outcome of a library call that raises.
Raise == [type |-> "raise", id |-> 0]

Runnables == [type : {"Runnable"}, id : Ids]
Serialized == [type : {"serialized"}, id : Ids]
Callables == [type : {"callable"}, id : Ids]

\* What the process may be started with; the script reads none of it.
Argvs == {<<"t.py">>, <<"t.py", "--flag">>}
Envs == {"LIZE_DEBUG=", "LIZE_DEBUG=1"}
Stdins == {<<>>, <<"line">>}

\* The library as a function of its arguments.  from_pyfn(add) and
\* serialize(add) each return a value or raise; deserialize returns a
\* callable or raises on the value serialize(add) returns, and raises on
\* anything that serialize did not produce.
Libs ==
    UNION { [from_pyfn : Runnables \cup {Raise},
             serialize : {sv},
             deserialize : [{sv} \cap Serialized -> Callables \cup {Raise}]] :
            sv \in Serialized \cup {Raise} }

\* The line print(v) writes: the text of str(v), then a newline.
Str(v) == <<"str", v.type, v.id>>

\* The traceback the interpreter writes for an exception nobody caught.
Traceback(e) == <<"Traceback", e>>

VARIABLES
    lib,        \* the library's behaviour, the same for every run
    argv,       \* argv[r]: the command line of run r
    env,        \* env[r]: the environment of run r
    stdin,      \* stdin[r]: the unread standard input of run r
    pc,         \* pc[r]: the statement run r executes next
    add_,       \* add_[r]: the binding of the module variable add
    s,          \* s[r]: the binding of the module variable s
    d,          \* d[r]: the binding of the module variable d
    out,        \* out[r]: the lines written to standard output
    err,        \* err[r]: what was written to standard error
    exc,        \* exc[r]: the library call whose exception is propagating
    exitCode,   \* exitCode[r]: the exit code, -1 while the process runs
    calls,      \* calls[r]: the library calls made so far, in order
    last,       \* SpecAdd: the latest call of add and what it returned
    earlier     \* SpecAdd: some earlier call of add and what it returned

scriptVars == <<lib, argv, env, stdin, pc, add_, s, d, out, err, exc,
                exitCode, calls>>
addVars == <<last, earlier>>
vars == <<lib, argv, env, stdin, pc, add_, s, d, out, err, exc, exitCode,
          calls, last, earlier>>

\* No call of add was recorded.
NoCall == [a |-> 0, b |-> 0, k |-> 0, ret |-> 0, made |-> FALSE]

\* --------------------------------------------------------------- library

LibFromPyfn(f) == IF f = AddFn THEN lib.from_pyfn ELSE Raise

LibSerialize(f) == IF f = AddFn THEN lib.serialize ELSE Raise

LibDeserialize(x) ==
    IF x \in DOMAIN lib.deserialize THEN lib.deserialize[x] ELSE Raise

Call(fn, arg, ret) == [fn |-> fn, arg |-> arg, ret |-> ret]

\* ------------------------------------------------------------------- add

\* add without its parentheses, a + b * k: a is a * KScale units.
AddNoParens(a, b, k) == a * KScale + b * k

\* def add(a, b, k): return (a + b) * k
add(a, b, k) == (a + b) * k

\* ---------------------------------------------------------------- script

Init ==
    /\ lib \in Libs
    /\ argv \in [Runs -> Argvs]
    /\ env \in [Runs -> Envs]
    /\ stdin \in [Runs -> Stdins]
    /\ pc = [r \in Runs |-> "L1"]
    /\ add_ = [r \in Runs |-> Unbound]
    /\ s = [r \in Runs |-> Unbound]
    /\ d = [r \in Runs |-> Unbound]
    /\ out = [r \in Runs |-> <<>>]
    /\ err = [r \in Runs |-> <<>>]
    /\ exc = [r \in Runs |-> "none"]
    /\ exitCode = [r \in Runs |-> -1]
    /\ calls = [r \in Runs |-> <<>>]
    /\ last = NoCall
    /\ earlier = NoCall

\* Lines 1-2: the imports bind Callable, serialize, deserialize, Runnable.
Import(r) ==
    /\ pc[r] = "L1"
    /\ pc' = [pc EXCEPT ![r] = "L5"]
    /\ UNCHANGED <<lib, argv, env, stdin, add_, s, d, out, err, exc,
                   exitCode, calls, last, earlier>>

\* Lines 5-6: def add binds the name add; the body is not executed.
DefAdd(r) ==
    /\ pc[r] = "L5"
    /\ add_' = [add_ EXCEPT ![r] = AddFn]
    /\ pc' = [pc EXCEPT ![r] = "L8"]
    /\ UNCHANGED <<lib, argv, env, stdin, s, d, out, err, exc, exitCode,
                   calls, last, earlier>>

\* Line 8 with a debug line printed first when the environment asks for it.
Line8Verbose(r) ==
    /\ pc[r] = "L8"
    /\ LET ret == LibFromPyfn(add_[r])
           dbg == IF env[r] = "LIZE_DEBUG=1" THEN <<Str(add_[r])>> ELSE <<>>
       IN
        /\ calls' = [calls EXCEPT ![r] = Append(@, Call("from_pyfn", add_[r], ret))]
        /\ IF ret = Raise
           THEN /\ exc' = [exc EXCEPT ![r] = "from_pyfn"]
                /\ pc' = [pc EXCEPT ![r] = "raised"]
                /\ out' = [out EXCEPT ![r] = @ \o dbg]
           ELSE /\ out' = [out EXCEPT ![r] = (@ \o dbg) \o <<Str(ret)>>]
                /\ pc' = [pc EXCEPT ![r] = "L9"]
                /\ exc' = exc
    /\ UNCHANGED <<lib, argv, env, stdin, add_, s, d, err, exitCode,
                   last, earlier>>

\* Line 8: print(Runnable.from_pyfn(add))
Line8(r) ==
    /\ pc[r] = "L8"
    /\ LET ret == LibFromPyfn(add_[r]) IN
        /\ calls' = [calls EXCEPT ![r] = Append(@, Call("from_pyfn", add_[r], ret))]
        /\ IF ret = Raise
           THEN /\ exc' = [exc EXCEPT ![r] = "from_pyfn"]
                /\ pc' = [pc EXCEPT ![r] = "raised"]
                /\ out' = out
           ELSE /\ out' = [out EXCEPT ![r] = Append(@, Str(ret))]
                /\ pc' = [pc EXCEPT ![r] = "L9"]
                /\ exc' = exc
    /\ UNCHANGED <<lib, argv, env, stdin, add_, s, d, err, exitCode,
                   last, earlier>>

\* Line 9 inside try/except that prints the error and raises it again.
Line9PrintsError(r) ==
    /\ pc[r] = "L9"
    /\ LET ret == LibSerialize(add_[r]) IN
        /\ calls' = [calls EXCEPT ![r] = Append(@, Call("serialize", add_[r], ret))]
        /\ IF ret = Raise
           THEN /\ exc' = [exc EXCEPT ![r] = "serialize"]
                /\ pc' = [pc EXCEPT ![r] = "raised"]
                /\ out' = [out EXCEPT ![r] = Append(@, Str(ret))]
                /\ s' = s
           ELSE /\ s' = [s EXCEPT ![r] = ret]
                /\ pc' = [pc EXCEPT ![r] = "L10"]
                /\ exc' = exc
                /\ out' = out
    /\ UNCHANGED <<lib, argv, env, stdin, add_, d, err, exitCode,
                   last, earlier>>

\* Line 9: s = serialize(add)
Line9(r) ==
    /\ pc[r] = "L9"
    /\ LET ret == LibSerialize(add_[r]) IN
        /\ calls' = [calls EXCEPT ![r] = Append(@, Call("serialize", add_[r], ret))]
        /\ IF ret = Raise
           THEN /\ exc' = [exc EXCEPT ![r] = "serialize"]
                /\ pc' = [pc EXCEPT ![r] = "raised"]
                /\ s' = s
           ELSE /\ s' = [s EXCEPT ![r] = ret]
                /\ pc' = [pc EXCEPT ![r] = "L10"]
                /\ exc' = exc
    /\ UNCHANGED <<lib, argv, env, stdin, add_, d, out, err, exitCode,
                   last, earlier>>

\* Line 10 passing the function instead of its serialized form.
Line10PassesAdd(r) ==
    /\ pc[r] = "L10"
    /\ LET ret == LibDeserialize(add_[r]) IN
        /\ calls' = [calls EXCEPT ![r] = Append(@, Call("deserialize", add_[r], ret))]
        /\ IF ret = Raise
           THEN /\ exc' = [exc EXCEPT ![r] = "deserialize"]
                /\ pc' = [pc EXCEPT ![r] = "raised"]
                /\ d' = d
           ELSE /\ d' = [d EXCEPT ![r] = ret]
                /\ pc' = [pc EXCEPT ![r] = "L11"]
                /\ exc' = exc
    /\ UNCHANGED <<lib, argv, env, stdin, add_, s, out, err, exitCode,
                   last, earlier>>

\* Line 10 inside try/except: pass, so that the script goes on to line 11.
Line10Swallows(r) ==
    /\ pc[r] = "L10"
    /\ LET ret == LibDeserialize(s[r]) IN
        /\ calls' = [calls EXCEPT ![r] = Append(@, Call("deserialize", s[r], ret))]
        /\ d' = IF ret = Raise THEN d ELSE [d EXCEPT ![r] = ret]
        /\ pc' = [pc EXCEPT ![r] = "L11"]
    /\ UNCHANGED <<lib, argv, env, stdin, add_, s, out, err, exc, exitCode,
                   last, earlier>>

\* Line 10: d = deserialize(s)
Line10(r) ==
    /\ pc[r] = "L10"
    /\ LET ret == LibDeserialize(s[r]) IN
        /\ calls' = [calls EXCEPT ![r] = Append(@, Call("deserialize", s[r], ret))]
        /\ IF ret = Raise
           THEN /\ exc' = [exc EXCEPT ![r] = "deserialize"]
                /\ pc' = [pc EXCEPT ![r] = "raised"]
                /\ d' = d
           ELSE /\ d' = [d EXCEPT ![r] = ret]
                /\ pc' = [pc EXCEPT ![r] = "L11"]
                /\ exc' = exc
    /\ UNCHANGED <<lib, argv, env, stdin, add_, s, out, err, exitCode,
                   last, earlier>>

\* Line 11 printing s, the serialized form, instead of d.
Line11PrintsS(r) ==
    /\ pc[r] = "L11"
    /\ out' = [out EXCEPT ![r] = Append(@, Str(s[r]))]
    /\ pc' = [pc EXCEPT ![r] = "end"]
    /\ UNCHANGED <<lib, argv, env, stdin, add_, s, d, err, exc, exitCode,
                   calls, last, earlier>>

\* Line 11 never returning: the write blocks for ever.
Line11Hangs(r) ==
    /\ pc[r] = "L11"
    /\ UNCHANGED vars

\* Line 11 preceded by input(): a line of standard input is consumed.
Line11ReadsInput(r) ==
    /\ pc[r] = "L11"
    /\ stdin' = [stdin EXCEPT ![r] = IF @ = <<>> THEN @ ELSE Tail(@)]
    /\ out' = [out EXCEPT ![r] = Append(@, Str(d[r]))]
    /\ pc' = [pc EXCEPT ![r] = "end"]
    /\ UNCHANGED <<lib, argv, env, add_, s, d, err, exc, exitCode,
                   calls, last, earlier>>

\* Line 11: print(d)
Line11(r) ==
    /\ pc[r] = "L11"
    /\ out' = [out EXCEPT ![r] = Append(@, Str(d[r]))]
    /\ pc' = [pc EXCEPT ![r] = "end"]
    /\ UNCHANGED <<lib, argv, env, stdin, add_, s, d, err, exc, exitCode,
                   calls, last, earlier>>

\* The end of the module is reached: the interpreter exits with code 0.
ExitNormally(r) ==
    /\ pc[r] = "end"
    /\ exitCode' = [exitCode EXCEPT ![r] = 0]
    /\ pc' = [pc EXCEPT ![r] = "exited"]
    /\ UNCHANGED <<lib, argv, env, stdin, add_, s, d, out, err, exc, calls,
                   last, earlier>>

\* No statement of the script is inside a try: an exception raised by a
\* library call reaches the interpreter, which writes the traceback to
\* standard error and exits with code 1.
UnhandledException(r) ==
    /\ pc[r] = "raised"
    /\ err' = [err EXCEPT ![r] = Append(@, Traceback(exc[r]))]
    /\ exitCode' = [exitCode EXCEPT ![r] = 1]
    /\ pc' = [pc EXCEPT ![r] = "exited"]
    /\ UNCHANGED <<lib, argv, env, stdin, add_, s, d, out, exc, calls,
                   last, earlier>>

Step(r) ==
    \/ Import(r)
    \/ DefAdd(r)
    \/ Line8(r)
    \/ Line9(r)
    \/ Line10(r)
    \/ Line11(r)
    \/ ExitNormally(r)
    \/ UnhandledException(r)

Next == \E r \in Runs : Step(r)

Spec == Init /\ [][Next]_vars

\* Every statement returns or raises, and the interpreter then runs the
\* next one: a run that can take a step eventually takes it.
FairSpec == Spec /\ \A r \in Runs : WF_vars(Step(r))

\* ---------------------------------------------------------- calls of add

\* The state in which add is applied: both runs have executed the def.
InitAdd ==
    /\ lib = CHOOSE l \in Libs : l.from_pyfn # Raise /\ l.serialize # Raise
    /\ argv = [r \in Runs |-> <<"t.py">>]
    /\ env = [r \in Runs |-> "LIZE_DEBUG="]
    /\ stdin = [r \in Runs |-> <<>>]
    /\ pc = [r \in Runs |-> "L8"]
    /\ add_ = [r \in Runs |-> AddFn]
    /\ s = [r \in Runs |-> Unbound]
    /\ d = [r \in Runs |-> Unbound]
    /\ out = [r \in Runs |-> <<>>]
    /\ err = [r \in Runs |-> <<>>]
    /\ exc = [r \in Runs |-> "none"]
    /\ exitCode = [r \in Runs |-> -1]
    /\ calls = [r \in Runs |-> <<>>]
    /\ last = NoCall
    /\ earlier = NoCall

\* add keeping a running total between calls.
CallAddAccumulating(a, b, k) ==
    /\ \A r \in Runs : add_[r] = AddFn
    /\ last' = [a |-> a, b |-> b, k |-> k,
                ret |-> add(a, b, k) + (IF last.made THEN last.ret ELSE 0),
                made |-> TRUE]
    /\ earlier' \in {earlier, last}
    /\ UNCHANGED scriptVars

\* A caller applies add to (a, b, k).  The body of add is one return
\* statement: it assigns nothing.  earlier keeps or replaces the call it
\* remembers, so that every pair of calls of a behaviour gets compared.
CallAdd(a, b, k) ==
    /\ \A r \in Runs : add_[r] = AddFn
    /\ last' = [a |-> a, b |-> b, k |-> k, ret |-> add(a, b, k), made |-> TRUE]
    /\ earlier' \in {earlier, last}
    /\ UNCHANGED scriptVars

NextAdd ==
    \E a \in -MaxArg..MaxArg, b \in -MaxArg..MaxArg, k \in -MaxK..MaxK :
        CallAdd(a, b, k)

SpecAdd == InitAdd /\ [][NextAdd]_vars

\* ------------------------------------------------------------ properties

IsPrefix(p, q) == Len(p) <= Len(q) /\ \A i \in 1..Len(p) : p[i] = q[i]

\* No library call of run r has raised.
NoFailure(r) == \A i \in 1..Len(calls[r]) : calls[r][i].ret # Raise

\* The library call named fn has raised in run r.
Failed(r, fn) ==
    \E i \in 1..Len(calls[r]) : calls[r][i].fn = fn /\ calls[r][i].ret = Raise

\* The library call named fn was made in run r.
Called(r, fn) == \E i \in 1..Len(calls[r]) : calls[r][i].fn = fn

\* C1: whenever add was called with (a, b, k), what it returned is
\* (a + b) * k, that is a*k + b*k; it is not a + b*k unless the two agree
\* (a = 0 or k = 1), and not a*k + b unless those two agree (b = 0 or k = 1).
\* k and the result count units of 1/KScale, so the integers a and b are
\* a * KScale and b * KScale units.
C1_AddIsSumTimesK ==
    last.made =>
        /\ last.ret = last.a * last.k + last.b * last.k
        /\ (last.a # 0 /\ last.k # KScale) =>
               last.ret # last.a * KScale + last.b * last.k
        /\ (last.b # 0 /\ last.k # KScale) =>
               last.ret # last.a * last.k + last.b * KScale

C1_Witness ==
    /\ last.made
    /\ last.a # 0 /\ last.b # 0 /\ last.a + last.b # 0
    /\ last.k \notin {0, KScale}
    /\ last.k % KScale # 0

\* C2: at any point of a run in which no library call has failed, standard
\* output is a prefix of two lines, the text of what from_pyfn(add)
\* returned and then the text of what deserialize returned for the value
\* serialize(add) returned; once such a run has exited, it is exactly those
\* two lines.
C2_TwoLines ==
    \A r \in Runs :
        NoFailure(r) =>
            /\ Len(out[r]) <= 2
            /\ Len(out[r]) >= 1 =>
                   /\ calls[r][1] = Call("from_pyfn", AddFn, lib.from_pyfn)
                   /\ out[r][1] = Str(lib.from_pyfn)
            /\ Len(out[r]) = 2 =>
                   /\ calls[r][2] = Call("serialize", AddFn, lib.serialize)
                   /\ calls[r][3] = Call("deserialize", lib.serialize,
                                         lib.deserialize[lib.serialize])
                   /\ out[r][2] = Str(lib.deserialize[lib.serialize])
            /\ pc[r] = "exited" => Len(out[r]) = 2

C2_Witness ==
    \E r \in Runs :
        /\ pc[r] = "exited"
        /\ NoFailure(r)
        /\ Len(out[r]) = 2
        /\ out[r][1] # out[r][2]

\* C3: every run terminates, and a run in which no library call failed
\* terminates with exit code 0.
C3_TerminatesWithZero ==
    /\ \A r \in Runs : <>(pc[r] = "exited")
    /\ [](\A r \in Runs : (pc[r] = "exited" /\ NoFailure(r)) => exitCode[r] = 0)
    /\ [](\A r \in Runs : (exitCode[r] # -1) <=> (pc[r] = "exited"))

C3_Witness ==
    \E r \in Runs : pc[r] = "exited" /\ NoFailure(r) /\ exitCode[r] = 0

\* C4: once serialize or deserialize has failed in a run, no later
\* statement of the script is executed (the name assigned by the failing
\* statement and the names assigned after it stay unbound, no further
\* library call is made, no second line is printed), and the run ends with
\* a non-zero exit code and the traceback on standard error.
C4_AfterFailure(r) ==
    (Failed(r, "serialize") \/ Failed(r, "deserialize")) =>
        /\ pc[r] \in {"raised", "exited"}
        /\ calls[r][Len(calls[r])].ret = Raise
        /\ exc[r] = calls[r][Len(calls[r])].fn
        /\ d[r] = Unbound
        /\ Failed(r, "serialize") => s[r] = Unbound /\ ~Called(r, "deserialize")
        /\ Len(out[r]) = 1
        /\ pc[r] = "exited" => exitCode[r] # 0 /\ err[r] = <<Traceback(exc[r])>>

C4_FailurePropagates ==
    /\ [](\A r \in Runs : C4_AfterFailure(r))
    /\ \A r \in Runs :
           (Failed(r, "serialize") \/ Failed(r, "deserialize"))
               ~> (pc[r] = "exited" /\ exitCode[r] # 0)

C4_Witness ==
    \E r \in Runs :
        /\ Failed(r, "deserialize")
        /\ pc[r] = "exited"
        /\ exitCode[r] = 1
        /\ s[r] \in Serialized

\* C5: two calls of add with the same arguments return the same result,
\* whatever calls were made before or between them, and a call of add
\* changes nothing of the script's state: no module variable, no output
\* (every step of SpecAdd is a call of add).
C5_AddIsPure ==
    /\ []((earlier.made /\ last.made /\ earlier.a = last.a
              /\ earlier.b = last.b /\ earlier.k = last.k)
             => earlier.ret = last.ret)
    /\ [][UNCHANGED scriptVars]_vars

C5_Witness ==
    /\ earlier.made /\ last.made
    /\ earlier.a = last.a /\ earlier.b = last.b /\ earlier.k = last.k
    /\ last.ret # 0

\* C6: two runs that differ only in their command line and environment
\* make the same library calls with the same arguments and results and
\* write the same output: at any time the calls and the output of one are
\* a prefix of the other's, and they are equal, with the exit code, when
\* both runs are at the same statement.
C6_SameFor(r1, r2) ==
    /\ IsPrefix(calls[r1], calls[r2]) \/ IsPrefix(calls[r2], calls[r1])
    /\ IsPrefix(out[r1], out[r2]) \/ IsPrefix(out[r2], out[r1])
    /\ pc[r1] = pc[r2] =>
           /\ calls[r1] = calls[r2]
           /\ out[r1] = out[r2]
           /\ err[r1] = err[r2]
           /\ exitCode[r1] = exitCode[r2]

C6_IndependentOfArgvEnv == \A r1 \in Runs, r2 \in Runs : C6_SameFor(r1, r2)

C6_Witness ==
    \E r1 \in Runs, r2 \in Runs :
        /\ argv[r1] # argv[r2]
        /\ env[r1] # env[r2]
        /\ pc[r1] = "exited" /\ pc[r2] = "exited"
        /\ Len(out[r1]) = 2 /\ Len(calls[r1]) = 3

\* The order in which control passes from statement to statement.
ProgramOrder ==
    {<<"L1", "L5">>, <<"L5", "L8">>, <<"L8", "L9">>, <<"L9", "L10">>,
     <<"L10", "L11">>, <<"L11", "end">>, <<"end", "exited">>,
     <<"L8", "raised">>, <<"L9", "raised">>, <<"L10", "raised">>,
     <<"raised", "exited">>}

\* Everything a run owns.
RunState(r) ==
    <<pc[r], add_[r], s[r], d[r], out[r], err[r], exc[r], exitCode[r],
      calls[r], stdin[r], argv[r], env[r]>>

\* Statements run one at a time, each after the previous one has completed.
C7_Sequential ==
    [][\A r \in Runs : pc'[r] # pc[r] => <<pc[r], pc'[r]>> \in ProgramOrder]_vars

\* No step of one run changes anything of the other run.
C7_NothingShared ==
    [][\A r1 \in Runs, r2 \in Runs :
           (RunState(r1)' # RunState(r1) /\ RunState(r2)' # RunState(r2))
               => r1 = r2]_vars

\* C7 as stated: no statement performs an input or output operation, and
\* no statement starts before the previous one has completed.
C7_NoIO ==
    /\ [][stdin' = stdin /\ out' = out]_vars
    /\ C7_Sequential

\* C7 as amended: the script performs no input operation, and its only
\* output operations are the writes of one line to standard output by each
\* of the two print statements (lines 8 and 11); standard error is written
\* by the interpreter alone, when an exception was not caught.  Statements
\* run one at a time in program order, and the runs share no state that
\* changes.
C7_OnlyThePrintsWrite ==
    /\ [][stdin' = stdin /\ lib' = lib /\ argv' = argv /\ env' = env]_vars
    /\ [][\A r \in Runs : out'[r] # out[r] =>
              /\ pc[r] \in {"L8", "L11"}
              /\ Len(out'[r]) = Len(out[r]) + 1
              /\ IsPrefix(out[r], out'[r])]_vars
    /\ [][\A r \in Runs : err'[r] # err[r] => pc[r] = "raised"]_vars
    /\ C7_Sequential
    /\ C7_NothingShared

C7_Witness ==
    \E r \in Runs :
        /\ pc[r] = "exited"
        /\ Len(out[r]) = 2
        /\ stdin[r] # <<>>

\* C8: the library calls of a run are, in this order and each at most
\* once, from_pyfn(add), serialize(add), deserialize(s); serialize is called
\* only after from_pyfn returned and the first line was printed; what
\* deserialize receives is what serialize returned, which is what s still
\* holds; from_pyfn and serialize receive the same function object, the one
\* bound to add.
C8_CallOrder ==
    \A r \in Runs :
        /\ Len(calls[r]) <= 3
        /\ Len(calls[r]) >= 1 =>
               /\ calls[r][1].fn = "from_pyfn"
               /\ calls[r][1].arg = AddFn
               /\ calls[r][1].arg = add_[r]
        /\ Len(calls[r]) >= 2 =>
               /\ calls[r][2].fn = "serialize"
               /\ calls[r][2].arg = calls[r][1].arg
               /\ calls[r][1].ret # Raise
               /\ Len(out[r]) >= 1
        /\ Len(calls[r]) = 3 =>
               /\ calls[r][3].fn = "deserialize"
               /\ calls[r][2].ret # Raise
               /\ calls[r][3].arg = calls[r][2].ret
        /\ s[r] # Unbound => Len(calls[r]) >= 2 /\ s[r] = calls[r][2].ret

C8_Witness ==
    \E r \in Runs :
        /\ Len(calls[r]) = 3
        /\ pc[r] = "exited"
        /\ calls[r][3].arg \in Serialized

\* C9: a run never has more than two lines on standard output, and what
\* is written stays written; the second line is there only if serialize and
\* deserialize were both called and returned; if serialize or deserialize
\* failed, exactly the first line, the text of the Runnable, is there; if
\* from_pyfn failed, nothing is there and serialize and deserialize were
\* never called.
C9_OutputOf(r) ==
    /\ Len(out[r]) <= 2
    /\ Len(out[r]) = 2 =>
           /\ Called(r, "serialize") /\ ~Failed(r, "serialize")
           /\ Called(r, "deserialize") /\ ~Failed(r, "deserialize")
    /\ (Failed(r, "serialize") \/ Failed(r, "deserialize")) =>
           out[r] = <<Str(calls[r][1].ret)>> /\ calls[r][1].ret \in Runnables
    /\ Failed(r, "from_pyfn") =>
           /\ out[r] = <<>>
           /\ ~Called(r, "serialize")
           /\ ~Called(r, "deserialize")

C9_OutputIsPrefix ==
    /\ [](\A r \in Runs : C9_OutputOf(r))
    /\ [][\A r \in Runs : IsPrefix(out[r], out'[r])]_vars

C9_Witness ==
    \E r \in Runs :
        /\ Failed(r, "serialize")
        /\ pc[r] = "exited"
        /\ Len(out[r]) = 1

=============================================================================
